---- MODULE Spec2Model ----
(***************************************************************************)
(* The weather-bot worker: the webhook endpoint (src/src/index.ts) and the *)
(* agent loop, activity mapper and tool executor                           *)
(* (src/src/lib/agent/agentClient.ts).                                     *)
(*                                                                         *)
(* Texts are sequences of one-character strings, so that startsWith,       *)
(* replace, trim and the ACTION regular expression are computed as the     *)
(* code computes them.  Null is the JavaScript null/undefined.             *)
(***************************************************************************)
EXTENDS Integers, Sequences, FiniteSets, TLC

VARIABLES
    load,          \* number of webhook deliveries the environment makes in this run
    api,           \* the completion API stub: the set of outcomes a call may have
    tracker,       \* the issue tracker: session id -> activities, oldest first
    hpc,           \* per request: position of handleWebhookWithEventListener
    req,           \* per request: the delivered request
    status,        \* per request: HTTP status of the response, 0 while none
    hlog,          \* per request: steps the webhook handler has taken
    pc,            \* per request: position of handleUserPrompt
    iterations,    \* per request: let iterations
    taskComplete,  \* per request: let taskComplete
    messages,      \* per request: const messages (the conversation history)
    response,      \* per request: const response of the current iteration
    content,       \* per request: const content of the current iteration
    toolResult,    \* per request: const toolResult of the current iteration
    caught,        \* per request: the error bound by the catch clause
    trace,         \* per request: external calls made by the loop, in order
    logged         \* per request: console.error calls, in order

vars == <<load, api, tracker, hpc, req, status, hlog, pc, iterations, taskComplete,
          messages, response, content, toolResult, caught, trace, logged>>

hvars == <<hpc, req, status, hlog>>
lvars == <<pc, iterations, taskComplete, messages, response, content, toolResult,
           caught, trace>>

----------------------------------------------------------------------------
(* Bounds of the model *)

\* webhook deliveries in one run
MaxReq == 2
\* pieces (a keyword, a tool name or one character) in a generated completion text
MaxPieces == 4
\* characters between the parentheses of a generated ACTION call
MaxArgs == 2

----------------------------------------------------------------------------
(* Texts *)

Null == <<"null">>

KwThinking == <<"T","H","I","N","K","I","N","G",":">>
KwAction == <<"A","C","T","I","O","N",":">>
KwResponse == <<"R","E","S","P","O","N","S","E",":">>
KwElicitation == <<"E","L","I","C","I","T","A","T","I","O","N",":">>
KwError == <<"E","R","R","O","R",":">>

GetCoordinates == <<"g","e","t","C","o","o","r","d","i","n","a","t","e","s">>
GetWeather == <<"g","e","t","W","e","a","t","h","e","r">>
GetTime == <<"g","e","t","T","i","m","e">>

NoResponse == <<"N","o"," ","r","e","s","p","o","n","s","e">>
AgentErrorPrefix == <<"A","g","e","n","t"," ","e","r","r","o","r",":"," ">>
UnknownError == <<"U","n","k","n","o","w","n"," ","e","r","r","o","r">>
OpenAIErrorPrefix == <<"O","p","e","n","A","I"," ","A","P","I"," ","e","r","r","o","r",":"," ">>
InvalidToolNamePrefix == <<"I","n","v","a","l","i","d"," ","t","o","o","l"," ","n","a","m","e",":"," ">>
ParameterRequired == <<"P","a","r","a","m","e","t","e","r"," ","i","s"," ","r","e","q","u","i","r","e","d"," ","f","o","r"," ","a","c","t","i","o","n"," ","e","x","e","c","u","t","i","o","n">>
InvalidWeatherParameter == <<"I","n","v","a","l","i","d"," ","p","a","r","a","m","e","t","e","r"," ","f","o","r"," ","g","e","t","W","e","a","t","h","e","r"," ","a","c","t","i","o","n">>
InvalidTimeParameter == <<"I","n","v","a","l","i","d"," ","p","a","r","a","m","e","t","e","r"," ","f","o","r"," ","g","e","t","T","i","m","e"," ","a","c","t","i","o","n">>
maxIterationsMessage == <<"T","h","e"," ","a","g","e","n","t"," ","h","a","s"," ","r","e","a","c","h","e","d"," ","t","h","e"," ","m","a","x","i","m","u","m"," ","n","u","m","b","e","r"," ","o","f"," ","i","t","e","r","a","t","i","o","n","s"," ","a","n","d"," ","w","i","l","l"," ","n","o","w"," ","s","t","o","p",".">>
ToolResultPrefix == <<"T","o","o","l"," ","r","e","s","u","l","t",":"," ">>
IssuePrefix == <<"I","s","s","u","e",":"," ">>
TaskPrefix == <<"T","a","s","k",":"," ">>
TaskSeparator == <<"\n","\n">> \o TaskPrefix
UnreachablePrefix == <<"U","n","r","e","a","c","h","a","b","l","e"," ","c","a","s","e",":"," ">>

\* the system instruction imported from ./prompt
prompt == <<"<","p","r","o","m","p","t",">">>

\* white space of String.prototype.trim and of the regular expression class \s
WhiteSpace == {" ", "\t", "\n", "\r"}
\* the regular expression class \w
WordChars == {"a","b","c","d","e","f","g","h","i","j","k","l","m","n","o","p","q","r","s","t","u","v","w","x","y","z","A","B","C","D","E","F","G","H","I","J","K","L","M","N","O","P","Q","R","S","T","U","V","W","X","Y","Z","0","1","2","3","4","5","6","7","8","9","_"}
Digits == {"0","1","2","3","4","5","6","7","8","9"}

\* JavaScript truthiness of a string-or-null value
Falsy(t) == t = Null \/ t = <<>>

\* String.prototype.startsWith
StartsWith(s, k) == Len(s) >= Len(k) /\ SubSeq(s, 1, Len(k)) = k

\* String.prototype.indexOf from position `from`, 1-based; 0 when k does not occur
IndexFrom(s, k, from) ==
    LET hits == {i \in from..(Len(s) - Len(k) + 1) : SubSeq(s, i, i + Len(k) - 1) = k}
    IN  IF hits = {} THEN 0 ELSE CHOOSE i \in hits : \A j \in hits : i <= j

\* String.prototype.replace with a string pattern: the first occurrence only
Replace(s, k, by) ==
    LET i == IndexFrom(s, k, 1)
    IN  IF i = 0 THEN s
        ELSE SubSeq(s, 1, i - 1) \o by \o SubSeq(s, i + Len(k), Len(s))

\* String.prototype.trim
Trim(s) ==
    LET solid == {i \in 1..Len(s) : s[i] \notin WhiteSpace}
    IN  IF solid = {} THEN <<>>
        ELSE SubSeq(s, CHOOSE i \in solid : \A j \in solid : i <= j,
                       CHOOSE i \in solid : \A j \in solid : i >= j)

\* the end (exclusive) of the longest run of characters of class cls starting at i
RunEnd(s, i, cls) ==
    LET stops == {j \in i..Len(s) : s[j] \notin cls}
    IN  IF stops = {} THEN Len(s) + 1 ELSE CHOOSE j \in stops : \A k \in stops : j <= k

----------------------------------------------------------------------------
(* Activity content and errors *)

Thought == "thought"
Action == "action"
Response == "response"
Elicitation == "elicitation"
ErrorType == "error"
Prompt == "prompt"

\* new Error(message)
Error(message) == [isError |-> TRUE, message |-> message]
\* a thrown value that is not an instance of Error
NonError == [isError |-> FALSE, message |-> Null]

\* the three tool names (the cases of executeAction's switch)
ToolNames == {GetCoordinates, GetWeather, GetTime}

\* isToolName of ../types
isToolName(name) == name \in ToolNames

\* UnreachableCaseError of ../types, thrown with the value that had no case
UnreachableCaseError(value) == Error(UnreachablePrefix \o value)

\* typeToKeyword, in the order Object.entries enumerates it
typeToKeyword ==
    << <<Thought, KwThinking>>, <<Action, KwAction>>, <<Response, KwResponse>>,
       <<Elicitation, KwElicitation>>, <<ErrorType, KwError>> >>

KeywordOf(type) ==
    typeToKeyword[CHOOSE i \in 1..Len(typeToKeyword) : typeToKeyword[i][1] = type][2]

\* Object.entries(typeToKeyword).find(...): the first entry whose keyword starts
\* the response; the type defaults to Thought
mappedType(resp) ==
    LET hits == {i \in 1..Len(typeToKeyword) : StartsWith(resp, typeToKeyword[i][2])}
    IN  IF hits = {} THEN Thought
        ELSE typeToKeyword[CHOOSE i \in hits : \A j \in hits : i <= j][1]

\* the pattern with ([^)]*), which lets the parentheses be empty
MatchAt_AllowsEmpty(resp, i) ==
    LET a == i + Len(KwAction)
        b == RunEnd(resp, a, WhiteSpace)
        c == RunEnd(resp, b, WordChars)
        d == IndexFrom(resp, <<")">>, c + 1)
    IN  IF /\ a - 1 <= Len(resp)
           /\ SubSeq(resp, i, a - 1) = KwAction
           /\ c > b
           /\ c <= Len(resp)
           /\ resp[c] = "("
           /\ d > c
        THEN <<SubSeq(resp, b, c - 1), SubSeq(resp, c + 1, d - 1)>>
        ELSE <<>>

\* one attempt of /ACTION:\s*(\w+)\(([^)]+)\)/ at position i: <<toolNameRaw, params>>
\* or <<>>.  \s* and \w+ are followed by a character outside their class and
\* [^)]+ by ")", so the greedy match is the only one.
MatchAt(resp, i) ==
    LET a == i + Len(KwAction)
        b == RunEnd(resp, a, WhiteSpace)
        c == RunEnd(resp, b, WordChars)
        d == IndexFrom(resp, <<")">>, c + 1)
    IN  IF /\ a - 1 <= Len(resp)
           /\ SubSeq(resp, i, a - 1) = KwAction
           /\ c > b
           /\ c <= Len(resp)
           /\ resp[c] = "("
           /\ d > c + 1
        THEN <<SubSeq(resp, b, c - 1), SubSeq(resp, c + 1, d - 1)>>
        ELSE <<>>

\* response.match(/ACTION:\s*(\w+)\(([^)]+)\)/): the leftmost match, <<>> for null
actionMatch(resp) ==
    LET hits == {i \in 1..Len(resp) : MatchAt(resp, i) # <<>>}
    IN  IF hits = {} THEN <<>>
        ELSE MatchAt(resp, CHOOSE i \in hits : \A j \in hits : i <= j)

\* the fall-through returning undefined instead of throwing
MapAction_ReturnsUndefined(resp) ==
    LET m == actionMatch(resp)
    IN  IF m # <<>>
        THEN IF ~isToolName(m[1])
             THEN [ok |-> FALSE, error |-> Error(InvalidToolNamePrefix \o m[1])]
             ELSE [ok |-> TRUE,
                   content |-> [type |-> Action, action |-> m[1],
                                parameter |-> IF Falsy(m[2]) THEN Null ELSE m[2]]]
        ELSE [ok |-> TRUE, content |-> [type |-> "none"]]

\* the parameter trimmed instead of taken verbatim
MapAction_TrimsParameter(resp) ==
    LET m == actionMatch(resp)
    IN  IF m # <<>>
        THEN IF ~isToolName(m[1])
             THEN [ok |-> FALSE, error |-> Error(InvalidToolNamePrefix \o m[1])]
             ELSE [ok |-> TRUE,
                   content |-> [type |-> Action, action |-> m[1],
                                parameter |-> IF Falsy(Trim(m[2])) THEN Null ELSE Trim(m[2])]]
        ELSE [ok |-> FALSE, error |-> UnreachableCaseError(<<"a","c","t","i","o","n">>)]

\* mapResponseToLinearActivityContent: [ok |-> TRUE, content] when it returns,
\* [ok |-> FALSE, error] when it throws
MapAction(resp) ==
    LET m == actionMatch(resp)
    IN  IF m # <<>>
        THEN IF ~isToolName(m[1])
             THEN [ok |-> FALSE, error |-> Error(InvalidToolNamePrefix \o m[1])]
             ELSE [ok |-> TRUE,
                   content |-> [type |-> Action, action |-> m[1],
                                parameter |-> IF Falsy(m[2]) THEN Null ELSE m[2]]]
        ELSE [ok |-> FALSE, error |-> UnreachableCaseError(<<"a","c","t","i","o","n">>)]

\* the body left untrimmed
MapBody_NoTrim(type, resp) ==
    [ok |-> TRUE,
     content |-> [type |-> type, body |-> Replace(resp, KeywordOf(type), <<>>)]]

MapBody(type, resp) ==
    [ok |-> TRUE,
     content |-> [type |-> type, body |-> Trim(Replace(resp, KeywordOf(type), <<>>))]]

mapResponseToLinearActivityContent(resp) ==
    LET type == mappedType(resp)
    IN  IF type = Action THEN MapAction(resp) ELSE MapBody(type, resp)

----------------------------------------------------------------------------
(* Tool executor *)

\* what the tools of ./tools may return, and the error they may throw
ToolValues == {<<"v">>}
ToolFailure == Error(<<"t","o","o","l"," ","f","a","i","l","e","d">>)

\* JSON.stringify of a tool's returned object
JSONStringify(v) == <<"{">> \o v \o <<"}">>

\* parameter.replace(/"/g, "")
StripQuotes(s) == SelectSeq(s, LAMBDA ch : ch # "\"")

\* parameter.split(",")
RECURSIVE Split(_)
Split(s) ==
    LET i == IndexFrom(s, <<",">>, 1)
    IN  IF i = 0 THEN <<s>>
        ELSE <<SubSeq(s, 1, i - 1)>> \o Split(SubSeq(s, i + 1, Len(s)))

\* !isNaN(parseFloat(p.trim())): an optional sign, then a digit or a point and a
\* digit (the literal Infinity is not modelled)
IsNumber(p) ==
    LET t == Trim(p)
        u == IF t # <<>> /\ t[1] \in {"+", "-"} THEN Tail(t) ELSE t
    IN  /\ u # <<>>
        /\ \/ u[1] \in Digits
           \/ u[1] = "." /\ Len(u) >= 2 /\ u[2] \in Digits

ValidPair(parameter) ==
    LET paramParts == Split(parameter)
    IN  Len(paramParts) >= 2 /\ IsNumber(paramParts[1]) /\ IsNumber(paramParts[2])

\* the outcomes of the call of a tool of ./tools
ToolOutcomes(serialize) ==
    {[ok |-> TRUE, called |-> TRUE,
      value |-> IF serialize THEN JSONStringify(v) ELSE v] : v \in ToolValues}
        \cup {[ok |-> FALSE, called |-> TRUE, error |-> ToolFailure]}

Throws(error) == {[ok |-> FALSE, called |-> FALSE, error |-> error]}

\* executeAction refusing only the null parameter
executeAction_ChecksNullOnly(action, parameter) ==
    IF parameter = Null THEN Throws(Error(ParameterRequired))
    ELSE IF action = GetCoordinates THEN ToolOutcomes(TRUE)
    ELSE IF action = GetWeather
        THEN IF ValidPair(parameter) THEN ToolOutcomes(TRUE)
             ELSE Throws(Error(InvalidWeatherParameter))
    ELSE IF action = GetTime
        THEN IF ValidPair(parameter) THEN ToolOutcomes(FALSE)
             ELSE Throws(Error(InvalidTimeParameter))
    ELSE Throws(UnreachableCaseError(action))

\* executeAction: the set of ways the call can end; called tells whether a tool ran
executeAction(action, parameter) ==
    IF Falsy(parameter) THEN Throws(Error(ParameterRequired))
    ELSE IF action = GetCoordinates THEN ToolOutcomes(TRUE)
    ELSE IF action = GetWeather
        THEN IF ValidPair(parameter) THEN ToolOutcomes(TRUE)
             ELSE Throws(Error(InvalidWeatherParameter))
    ELSE IF action = GetTime
        THEN IF ValidPair(parameter) THEN ToolOutcomes(FALSE)
             ELSE Throws(Error(InvalidTimeParameter))
    ELSE Throws(UnreachableCaseError(action))

----------------------------------------------------------------------------
(* The environment: requests, the tracker's API, the completion API *)

MAX_ITERATIONS == 10

Reqs == 1..MaxReq
SessionIds == 1..MaxReq

\* an activity body, an issue title and a comment body
SomeBody == <<"x">>
SomeTitle == <<"t">>
SomeComment == <<"c">>

\* activity logs a session may hold when the webhook fires, oldest first
InitialLogs ==
    { <<>>,
      << [type |-> Prompt, body |-> SomeBody], [type |-> Thought, body |-> SomeBody],
         [type |-> Response, body |-> SomeBody], [type |-> Prompt, body |-> SomeComment] >> }

\* the error a call of the Linear SDK may throw
LinearFailure == Error(<<"l","i","n","e","a","r"," ","f","a","i","l","e","d">>)
\* the error the OpenAI SDK may throw
OpenAIFailure == Error(<<"o","p","e","n","a","i"," ","f","a","i","l","e","d">>)

\* outcomes of openai.chat.completions.create: content (Null when the first
\* choice has none) or a thrown value
Completion(text) == [kind |-> "content", text |-> text, error |-> NonError]
Raise(error) == [kind |-> "raise", text |-> Null, error |-> error]

TxtThought == KwThinking \o <<" ", "x">>
TxtResponse == KwResponse \o <<" ", "x">>
TxtElicitation == KwElicitation \o <<" ", "x">>
TxtError == KwError \o <<" ", "x">>
TxtTime == KwAction \o <<" ">> \o GetTime \o <<"(", "1", ",", "2", ")">>
TxtCoordinates == KwAction \o GetCoordinates \o <<"(", "\"", "x", "\"", ")">>
TxtWeatherBad == KwAction \o <<" ">> \o GetWeather \o <<"(", "x", ")">>
TxtUnknownTool == KwAction \o <<" ", "x", "(", "1", ")">>
TxtNoCall == KwAction \o <<" ">> \o GetTime
TxtPlain == <<"x", " ">> \o KwThinking \o <<" ", "y">>

\* what the completion stub is seeded with: each call has any outcome of the seed
Seeds ==
    { {Completion(TxtThought)},
      {Completion(TxtResponse)},
      {Completion(Null)},
      {Completion(<<>>)},
      {Completion(TxtThought), Completion(TxtResponse), Completion(TxtElicitation),
       Completion(TxtError), Raise(OpenAIFailure), Raise(NonError)},
      {Completion(TxtTime), Completion(TxtWeatherBad), Completion(TxtUnknownTool),
       Completion(TxtNoCall), Completion(TxtResponse)},
      {Completion(TxtCoordinates), Completion(TxtElicitation)},
      {Completion(TxtPlain), Completion(TxtNoCall)} }

\* the seeds met by n interleaved deliveries: every seed by one delivery, fewer
\* as more invocations interleave
SeedsFor(n) ==
    IF n = 1 THEN Seeds
    ELSE IF n = 2 THEN { {Completion(TxtThought)}, {Completion(TxtResponse)} }
    ELSE { {Completion(TxtResponse)} }

AgentSessionEvent == "AgentSessionEvent"
OtherEvent == "Other"

\* a webhook request: whether its body parses, whether signature and timestamp
\* verify, the payload's type, the outcome of getOAuthToken, and the session
Requests ==
    [json : BOOLEAN, verifies : BOOLEAN, type : {AgentSessionEvent, OtherEvent},
     token : {"found", "missing", "raise"}, session : SessionIds,
     issueTitle : {Null, SomeTitle}, commentBody : {Null, SomeComment}]

NoRequest ==
    [json |-> FALSE, verifies |-> FALSE, type |-> OtherEvent, token |-> "missing",
     session |-> 1, issueTitle |-> Null, commentBody |-> Null]

NoContent == [type |-> "none"]

----------------------------------------------------------------------------
(* Pure parts of the handlers *)

\* generateUserPrompt
generateUserPrompt(webhook) ==
    IF ~Falsy(webhook.issueTitle) /\ ~Falsy(webhook.commentBody)
    THEN IssuePrefix \o webhook.issueTitle \o TaskSeparator \o webhook.commentBody
    ELSE IF ~Falsy(webhook.issueTitle) THEN TaskPrefix \o webhook.issueTitle
    ELSE IF ~Falsy(webhook.commentBody) THEN TaskPrefix \o webhook.commentBody
    ELSE <<>>

Message(role, text) == [role |-> role, content |-> text]

RECURSIVE Reverse(_)
Reverse(s) == IF s = <<>> THEN <<>> ELSE Reverse(Tail(s)) \o <<Head(s)>>

\* generateMessagesFromPreviousActivities: the pages of the session's activities
\* (the tracker lists the newest first), filtered to prompts and responses,
\* reversed, and turned into messages
generateMessagesFromPreviousActivities(log) ==
    LET allActivities == Reverse(log)
        kept == SelectSeq(allActivities, LAMBDA a : a.type \in {Prompt, Response})
        chronological == Reverse(kept)
    IN  [i \in 1..Len(chronological) |->
            Message(IF chronological[i].type = Prompt THEN "user" ELSE "assistant",
                    chronological[i].body)]

\* the messages handleUserPrompt starts from
InitialMessages(userPrompt, activities) ==
    <<Message("system", prompt)>>
        \o (IF Falsy(userPrompt) THEN <<>> ELSE <<Message("user", userPrompt)>>)
        \o activities

\* the catch clause losing the message of the error
ErrorMessage_DropsMessage(error) == AgentErrorPrefix \o UnknownError

\* the body of the Error activity written by the catch clause
ErrorMessage(error) ==
    AgentErrorPrefix \o (IF error.isError THEN error.message ELSE UnknownError)

\* the error callOpenAI throws for a value thrown by the SDK
WrapOpenAIError(error) ==
    Error(OpenAIErrorPrefix \o (IF error.isError THEN error.message ELSE UnknownError))

----------------------------------------------------------------------------
(* Initial state *)

Idle ==
    /\ hpc = [r \in Reqs |-> "none"]
    /\ req = [r \in Reqs |-> NoRequest]
    /\ status = [r \in Reqs |-> 0]
    /\ hlog = [r \in Reqs |-> <<>>]
    /\ pc = [r \in Reqs |-> "idle"]
    /\ iterations = [r \in Reqs |-> 0]
    /\ taskComplete = [r \in Reqs |-> FALSE]
    /\ messages = [r \in Reqs |-> <<>>]
    /\ response = [r \in Reqs |-> Null]
    /\ content = [r \in Reqs |-> NoContent]
    /\ toolResult = [r \in Reqs |-> Null]
    /\ caught = [r \in Reqs |-> NonError]
    /\ trace = [r \in Reqs |-> <<>>]
    /\ logged = [r \in Reqs |-> <<>>]

\* One delivery meets every seed and both kinds of session; several deliveries
\* interleave over fewer seeds and fresh sessions.
Init ==
    /\ load \in 1..MaxReq
    /\ api \in SeedsFor(load)
    /\ \E log \in (IF load = 1 THEN InitialLogs ELSE {<<>>}) :
          tracker = [s \in SessionIds |-> IF s = 1 THEN log ELSE <<>>]
    /\ Idle

----------------------------------------------------------------------------
(* The webhook endpoint, src/src/index.ts *)

\* requests the environment delivers as its r-th
Deliverable(r) ==
    {q \in Requests :
        /\ q.session <= r
        /\ load > 1 => /\ q.json /\ q.verifies /\ q.type = AgentSessionEvent
                       /\ q.token = "found"
                       /\ q.issueTitle = SomeTitle /\ q.commentBody = Null}

JsonError == Error(<<"b","a","d"," ","j","s","o","n">>)
SignatureError == Error(<<"b","a","d"," ","s","i","g","n","a","t","u","r","e">>)
TokenError == Error(<<"k","v"," ","f","a","i","l","e","d">>)

\* fetch: a POST to /webhook with both secrets configured reaches the handler
Deliver(r) ==
    /\ hpc[r] = "none"
    /\ r <= load
    /\ \A q \in 1..(r - 1) : hpc[q] # "none"
    /\ \E q \in Deliverable(r) : req' = [req EXCEPT ![r] = q]
    /\ hpc' = [hpc EXCEPT ![r] = "received"]
    /\ UNCHANGED <<load, api, tracker, status, hlog, lvars, logged>>

\* the handler's catch clause: log and answer 500
HandlerFails(r, step, error) ==
    /\ hlog' = [hlog EXCEPT ![r] = Append(@, step)]
    /\ logged' = [logged EXCEPT ![r] = Append(@, [at |-> "handler", error |-> error])]
    /\ status' = [status EXCEPT ![r] = 500]
    /\ hpc' = [hpc EXCEPT ![r] = "responded"]

\* the handler going on when the verification fails
ParseAndVerify_IgnoresVerify(r) ==
    /\ hpc[r] = "received"
    /\ IF ~req[r].json THEN HandlerFails(r, "parseFailed", JsonError)
       ELSE /\ hlog' = [hlog EXCEPT ![r] = Append(@, "verified")]
            /\ hpc' = [hpc EXCEPT ![r] = "verified"]
            /\ UNCHANGED <<status, logged>>
    /\ UNCHANGED <<load, api, tracker, req, lvars>>

\* handleWebhookWithEventListener up to the verification of the signature
ParseAndVerify(r) ==
    /\ hpc[r] = "received"
    /\ IF ~req[r].json THEN HandlerFails(r, "parseFailed", JsonError)
       ELSE IF ~req[r].verifies THEN HandlerFails(r, "verifyFailed", SignatureError)
       ELSE /\ hlog' = [hlog EXCEPT ![r] = Append(@, "verified")]
            /\ hpc' = [hpc EXCEPT ![r] = "verified"]
            /\ UNCHANGED <<status, logged>>
    /\ UNCHANGED <<load, api, tracker, req, lvars>>

\* handleWebhookWithEventListener after the verification: the token lookup, the
\* launch of handleWebhook under ctx.waitUntil and the response
HandleEvent(r) ==
    /\ hpc[r] = "verified"
    /\ IF req[r].type # AgentSessionEvent
       THEN /\ status' = [status EXCEPT ![r] = 200]
            /\ hpc' = [hpc EXCEPT ![r] = "responded"]
            /\ UNCHANGED <<hlog, logged, pc>>
       ELSE IF req[r].token = "raise"
       THEN /\ HandlerFails(r, "getOAuthToken", TokenError)
            /\ UNCHANGED pc
       ELSE IF req[r].token = "missing"
       THEN /\ hlog' = [hlog EXCEPT ![r] = Append(@, "getOAuthToken")]
            /\ status' = [status EXCEPT ![r] = 500]
            /\ hpc' = [hpc EXCEPT ![r] = "responded"]
            /\ UNCHANGED <<logged, pc>>
       ELSE /\ hlog' = [hlog EXCEPT ![r] = @ \o <<"getOAuthToken", "handleWebhook">>]
            /\ pc' = [pc EXCEPT ![r] = "fetch"]
            /\ status' = [status EXCEPT ![r] = 200]
            /\ hpc' = [hpc EXCEPT ![r] = "responded"]
            /\ UNCHANGED logged
    /\ UNCHANGED <<load, api, tracker, req, iterations, taskComplete, messages,
                   response, content, toolResult, caught, trace>>

\* the .catch starting handleWebhook again
LogRejection_Retries(r) ==
    /\ pc[r] = "rejected"
    /\ logged' = [logged EXCEPT ![r] = Append(@, [at |-> "webhook", error |-> caught[r]])]
    /\ pc' = [pc EXCEPT ![r] = "fetch"]
    /\ UNCHANGED <<load, api, tracker, hvars, iterations, taskComplete, messages,
                   response, content, toolResult, caught, trace>>

\* the .catch of the promise given to ctx.waitUntil
LogRejection(r) ==
    /\ pc[r] = "rejected"
    /\ logged' = [logged EXCEPT ![r] = Append(@, [at |-> "webhook", error |-> caught[r]])]
    /\ pc' = [pc EXCEPT ![r] = "failed"]
    /\ UNCHANGED <<load, api, tracker, hvars, iterations, taskComplete, messages,
                   response, content, toolResult, caught, trace>>

----------------------------------------------------------------------------
(* The agent loop, handleUserPrompt *)

\* linearClient.createAgentActivity({agentSessionId, content}): the record is
\* appended to the session, or the call throws and nothing is appended; site is
\* the statement of handleUserPrompt that makes the call
createAgentActivity(r, c, ok) ==
    /\ trace' = [trace EXCEPT ![r] =
                    Append(@, [op |-> "createAgentActivity", site |-> pc[r],
                               content |-> c, ok |-> ok])]
    /\ tracker' = IF ok THEN [tracker EXCEPT ![req[r].session] = Append(@, c)]
                  ELSE tracker

\* control enters the catch clause with the thrown error
Catch(r, error) ==
    /\ pc' = [pc EXCEPT ![r] = "catch"]
    /\ caught' = [caught EXCEPT ![r] = error]

\* lines 29-42: the previous activities are read and the messages built
FetchHistory(r) ==
    /\ pc[r] = "fetch"
    /\ \E ok \in BOOLEAN :
          IF ok
          THEN /\ messages' = [messages EXCEPT ![r] =
                     InitialMessages(generateUserPrompt(req[r]),
                         generateMessagesFromPreviousActivities(tracker[req[r].session]))]
               /\ pc' = [pc EXCEPT ![r] = "while"]
               /\ UNCHANGED caught
          ELSE /\ pc' = [pc EXCEPT ![r] = "rejected"]
               /\ caught' = [caught EXCEPT ![r] = LinearFailure]
               /\ UNCHANGED messages
    /\ iterations' = [iterations EXCEPT ![r] = 0]
    /\ taskComplete' = [taskComplete EXCEPT ![r] = FALSE]
    /\ UNCHANGED <<load, api, tracker, hvars, response, content, toolResult, trace, logged>>

\* the loop test off by one
WhileCondition_OffByOne(done, n) == ~done /\ n <= MAX_ITERATIONS

\* the loop test without the taskComplete flag
WhileCondition_IgnoresComplete(done, n) == n < MAX_ITERATIONS

\* the condition of the while loop
WhileCondition(done, n) == ~done /\ n < MAX_ITERATIONS

\* the loop counting its iterations in a counter all invocations share
WhileLoop_SharedCounter(r) ==
    /\ pc[r] = "while"
    /\ IF WhileCondition(taskComplete[r], iterations[r])
       THEN /\ iterations' = [q \in Reqs |-> iterations[q] + 1]
            /\ pc' = [pc EXCEPT ![r] = "callOpenAI"]
       ELSE /\ pc' = [pc EXCEPT ![r] = "afterLoop"]
            /\ UNCHANGED iterations
    /\ response' = [response EXCEPT ![r] = Null]
    /\ content' = [content EXCEPT ![r] = NoContent]
    /\ toolResult' = [toolResult EXCEPT ![r] = Null]
    /\ caught' = [caught EXCEPT ![r] = NonError]
    /\ UNCHANGED <<load, api, tracker, hvars, taskComplete, messages, trace, logged>>

\* lines 44-45: the loop test and iterations++
WhileLoop(r) ==
    /\ pc[r] = "while"
    /\ IF WhileCondition(taskComplete[r], iterations[r])
       THEN /\ iterations' = [iterations EXCEPT ![r] = @ + 1]
            /\ pc' = [pc EXCEPT ![r] = "callOpenAI"]
       ELSE /\ pc' = [pc EXCEPT ![r] = "afterLoop"]
            /\ UNCHANGED iterations
    /\ response' = [response EXCEPT ![r] = Null]
    /\ content' = [content EXCEPT ![r] = NoContent]
    /\ toolResult' = [toolResult EXCEPT ![r] = Null]
    /\ caught' = [caught EXCEPT ![r] = NonError]
    /\ UNCHANGED <<load, api, tracker, hvars, taskComplete, messages, trace, logged>>

\* callOpenAI without the "No response" sentinel
CompletionText_NoSentinel(o) == o.text

\* callOpenAI's result for an outcome of the SDK call
CompletionText(o) == IF Falsy(o.text) THEN NoResponse ELSE o.text

\* line 48 and callOpenAI
CallOpenAI(r) ==
    /\ pc[r] = "callOpenAI"
    /\ \E o \in api :
          /\ trace' = [trace EXCEPT ![r] =
                Append(@, [op |-> "completion", sent |-> Len(messages[r]), outcome |-> o])]
          /\ IF o.kind = "raise"
             THEN /\ Catch(r, WrapOpenAIError(o.error))
                  /\ UNCHANGED response
             ELSE /\ response' = [response EXCEPT ![r] = CompletionText(o)]
                  /\ pc' = [pc EXCEPT ![r] = "map"]
                  /\ UNCHANGED caught
    /\ UNCHANGED <<load, api, tracker, hvars, iterations, taskComplete, messages,
                   content, toolResult, logged>>

\* a Response handled like a Thought
Branch_ResponseAsThought(type) ==
    IF type \in {Thought, Response} THEN "thought"
    ELSE IF type = Action THEN "intent"
    ELSE IF type \in {ErrorType, Elicitation} THEN "terminal"
    ELSE "while"

\* the branch of the if chain of lines 51-116 taken for a content type
Branch(type) ==
    IF type = Thought THEN "thought"
    ELSE IF type = Action THEN "intent"
    ELSE IF type \in {Response, ErrorType, Elicitation} THEN "terminal"
    ELSE "while"

\* line 49: the mapper
MapResponse(r) ==
    /\ pc[r] = "map"
    /\ LET m == mapResponseToLinearActivityContent(response[r])
       IN  IF m.ok
           THEN /\ content' = [content EXCEPT ![r] = m.content]
                /\ pc' = [pc EXCEPT ![r] = Branch(m.content.type)]
                /\ UNCHANGED caught
           ELSE /\ Catch(r, m.error)
                /\ UNCHANGED content
    /\ UNCHANGED <<load, api, tracker, hvars, iterations, taskComplete, messages,
                   response, toolResult, trace, logged>>

\* the response joining the history whether or not the Thought was persisted
HandleThought_PushesFirst(r) ==
    /\ pc[r] = "thought"
    /\ \E ok \in BOOLEAN :
          /\ createAgentActivity(r, content[r], ok)
          /\ messages' = [messages EXCEPT ![r] =
                Append(@, Message("assistant", response[r]))]
          /\ IF ok
             THEN /\ pc' = [pc EXCEPT ![r] = "while"]
                  /\ UNCHANGED caught
             ELSE Catch(r, LinearFailure)
    /\ UNCHANGED <<load, api, hvars, iterations, taskComplete, response, content,
                   toolResult, logged>>

\* lines 51-61: a Thought is persisted and the response joins the history
HandleThought(r) ==
    /\ pc[r] = "thought"
    /\ \E ok \in BOOLEAN :
          /\ createAgentActivity(r, content[r], ok)
          /\ IF ok
             THEN /\ messages' = [messages EXCEPT ![r] =
                        Append(@, Message("assistant", response[r]))]
                  /\ pc' = [pc EXCEPT ![r] = "while"]
                  /\ UNCHANGED caught
             ELSE /\ Catch(r, LinearFailure)
                  /\ UNCHANGED messages
    /\ UNCHANGED <<load, api, hvars, iterations, taskComplete, response, content,
                   toolResult, logged>>

\* lines 62-68: the Action is persisted before the tool runs
ActionIntent(r) ==
    /\ pc[r] = "intent"
    /\ \E ok \in BOOLEAN :
          /\ createAgentActivity(r, content[r], ok)
          /\ IF ok
             THEN /\ pc' = [pc EXCEPT ![r] = "execute"]
                  /\ UNCHANGED caught
             ELSE Catch(r, LinearFailure)
    /\ UNCHANGED <<load, api, hvars, iterations, taskComplete, messages, response,
                   content, toolResult, logged>>

\* the response joining the history before the tool runs
ExecuteTool_PushesFirst(r) ==
    /\ pc[r] = "execute"
    /\ \E o \in executeAction(content[r].action, content[r].parameter) :
          /\ trace' = [trace EXCEPT ![r] =
                Append(@, [op |-> "executeAction", action |-> content[r].action,
                           parameter |-> content[r].parameter,
                           called |-> o.called, ok |-> o.ok,
                           value |-> IF o.ok THEN o.value ELSE Null,
                           error |-> IF o.ok THEN NonError ELSE o.error])]
          /\ IF o.ok
             THEN /\ toolResult' = [toolResult EXCEPT ![r] = o.value]
                  /\ messages' = [messages EXCEPT ![r] =
                        @ \o <<Message("assistant", response[r]),
                               Message("user", ToolResultPrefix \o o.value)>>]
                  /\ pc' = [pc EXCEPT ![r] = "outcome"]
                  /\ UNCHANGED caught
             ELSE /\ Catch(r, o.error)
                  /\ messages' = [messages EXCEPT ![r] =
                        Append(@, Message("assistant", response[r]))]
                  /\ UNCHANGED toolResult
    /\ UNCHANGED <<load, api, tracker, hvars, iterations, taskComplete, response,
                   content, logged>>

\* lines 71-82: the tool runs and its result joins the history
ExecuteTool(r) ==
    /\ pc[r] = "execute"
    /\ \E o \in executeAction(content[r].action, content[r].parameter) :
          /\ trace' = [trace EXCEPT ![r] =
                Append(@, [op |-> "executeAction", action |-> content[r].action,
                           parameter |-> content[r].parameter,
                           called |-> o.called, ok |-> o.ok,
                           value |-> IF o.ok THEN o.value ELSE Null,
                           error |-> IF o.ok THEN NonError ELSE o.error])]
          /\ IF o.ok
             THEN /\ toolResult' = [toolResult EXCEPT ![r] = o.value]
                  /\ messages' = [messages EXCEPT ![r] =
                        @ \o <<Message("assistant", response[r]),
                               Message("user", ToolResultPrefix \o o.value)>>]
                  /\ pc' = [pc EXCEPT ![r] = "outcome"]
                  /\ UNCHANGED caught
             ELSE /\ Catch(r, o.error)
                  /\ UNCHANGED <<toolResult, messages>>
    /\ UNCHANGED <<load, api, tracker, hvars, iterations, taskComplete, response,
                   content, logged>>

\* the result activity losing the parameter
resultContent_DropsParameter(c, result) ==
    [type |-> Action, action |-> c.action, result |-> result, parameter |-> Null]

\* the content of the result activity, lines 85-90
resultContent(c, result) ==
    [type |-> Action, action |-> c.action, result |-> result,
     parameter |-> IF Falsy(c.parameter) THEN Null ELSE c.parameter]

\* lines 84-97: the result activity is persisted
ActionOutcome(r) ==
    /\ pc[r] = "outcome"
    /\ \E ok \in BOOLEAN :
          /\ createAgentActivity(r, resultContent(content[r], toolResult[r]), ok)
          /\ IF ok
             THEN /\ pc' = [pc EXCEPT ![r] = "while"]
                  /\ UNCHANGED caught
             ELSE Catch(r, LinearFailure)
    /\ UNCHANGED <<load, api, hvars, iterations, taskComplete, messages, response,
                   content, toolResult, logged>>

\* lines 98-116: a Response, Error or Elicitation is persisted and ends the task
HandleTerminal(r) ==
    /\ pc[r] = "terminal"
    /\ \E ok \in BOOLEAN :
          /\ createAgentActivity(r, content[r], ok)
          /\ IF ok
             THEN /\ taskComplete' = [taskComplete EXCEPT ![r] = TRUE]
                  /\ pc' = [pc EXCEPT ![r] = "while"]
                  /\ UNCHANGED caught
             ELSE /\ Catch(r, LinearFailure)
                  /\ UNCHANGED taskComplete
    /\ UNCHANGED <<load, api, hvars, iterations, messages, response, content,
                   toolResult, logged>>

\* the catch clause guarding its own write and going on with the loop
CatchError_SwallowsFailure(r) ==
    /\ pc[r] = "catch"
    /\ \E ok \in BOOLEAN :
          /\ createAgentActivity(r, [type |-> ErrorType, body |-> ErrorMessage(caught[r])], ok)
          /\ IF ok
             THEN /\ taskComplete' = [taskComplete EXCEPT ![r] = TRUE]
                  /\ pc' = [pc EXCEPT ![r] = "while"]
                  /\ UNCHANGED caught
             ELSE /\ pc' = [pc EXCEPT ![r] = "while"]
                  /\ UNCHANGED <<caught, taskComplete>>
    /\ UNCHANGED <<load, api, hvars, iterations, messages, response, content,
                   toolResult, logged>>

\* lines 117-129: the catch clause persists an Error activity and ends the task
CatchError(r) ==
    /\ pc[r] = "catch"
    /\ \E ok \in BOOLEAN :
          /\ createAgentActivity(r, [type |-> ErrorType, body |-> ErrorMessage(caught[r])], ok)
          /\ IF ok
             THEN /\ taskComplete' = [taskComplete EXCEPT ![r] = TRUE]
                  /\ pc' = [pc EXCEPT ![r] = "while"]
                  /\ UNCHANGED caught
             ELSE /\ pc' = [pc EXCEPT ![r] = "rejected"]
                  /\ caught' = [caught EXCEPT ![r] = LinearFailure]
                  /\ UNCHANGED taskComplete
    /\ UNCHANGED <<load, api, hvars, iterations, messages, response, content,
                   toolResult, logged>>

\* the limit test without the taskComplete flag
LimitReached_IgnoresComplete(done, n) == n >= MAX_ITERATIONS

\* the limit test off by one
LimitReached_OffByOne(done, n) == ~done /\ n > MAX_ITERATIONS

\* the condition of line 132
LimitReached(done, n) == ~done /\ n >= MAX_ITERATIONS

\* lines 132-143: the limit-reached Error, then handleUserPrompt returns
AfterLoop(r) ==
    /\ pc[r] = "afterLoop"
    /\ IF LimitReached(taskComplete[r], iterations[r])
       THEN \E ok \in BOOLEAN :
               /\ createAgentActivity(r, [type |-> ErrorType, body |-> maxIterationsMessage], ok)
               /\ IF ok
                  THEN /\ pc' = [pc EXCEPT ![r] = "done"]
                       /\ UNCHANGED caught
                  ELSE /\ pc' = [pc EXCEPT ![r] = "rejected"]
                       /\ caught' = [caught EXCEPT ![r] = LinearFailure]
       ELSE /\ pc' = [pc EXCEPT ![r] = "done"]
            /\ UNCHANGED <<caught, trace, tracker>>
    /\ UNCHANGED <<load, api, hvars, iterations, taskComplete, messages, response,
                   content, toolResult, logged>>

----------------------------------------------------------------------------
(* Specifications *)

Next ==
    \E r \in Reqs :
        \/ Deliver(r)
        \/ ParseAndVerify(r)
        \/ HandleEvent(r)
        \/ LogRejection(r)
        \/ FetchHistory(r)
        \/ WhileLoop(r)
        \/ CallOpenAI(r)
        \/ MapResponse(r)
        \/ HandleThought(r)
        \/ ActionIntent(r)
        \/ ExecuteTool(r)
        \/ ActionOutcome(r)
        \/ HandleTerminal(r)
        \/ CatchError(r)
        \/ AfterLoop(r)

Spec == Init /\ [][Next]_vars

----------------------------------------------------------------------------
(* The mapper on its own: every generated completion text, mapped once *)

\* the pieces generated texts are made of
Pieces ==
    {KwThinking, KwAction, KwResponse, KwElicitation, KwError, GetTime,
     <<" ">>, <<"x">>, <<"(">>, <<")">>}

RECURSIVE Flatten(_)
Flatten(ps) == IF ps = <<>> THEN <<>> ELSE Head(ps) \o Flatten(Tail(ps))

\* texts of up to MaxPieces pieces (a completion with no content never reaches
\* the mapper: callOpenAI turns it into NoResponse)
PieceTexts == UNION {{Flatten(ps) : ps \in [1..k -> Pieces]} : k \in 1..MaxPieces}

\* texts shaped like a tool call
Identifiers == ToolNames \cup {<<"x">>, GetTime \o <<"x">>, <<"g","e","t","t","i","m","e">>}
ArgChars == {"1", ",", " ", "x", "("}
ArgTexts == UNION {[1..k -> ArgChars] : k \in 0..MaxArgs}
CallTexts ==
    {KwAction \o ws \o id \o <<"(">> \o args \o <<")">> \o rest :
        ws \in {<<>>, <<" ">>}, id \in Identifiers, args \in ArgTexts,
        rest \in {<<>>, <<" ", "x">>}}

ExampleWeather == <<"A","C","T","I","O","N",":"," ","g","e","t","W","e","a","t","h","e","r","(","4","0",".","0",","," ","-","7","4",".","0",")">>
ExampleParameter == <<"4","0",".","0",","," ","-","7","4",".","0">>

MapperInputs == PieceTexts \cup CallTexts \cup {ExampleWeather, NoResponse}

\* the first iteration of an invocation, right after callOpenAI returned text
InitMapper ==
    /\ load = 1
    /\ \E text \in MapperInputs :
          /\ api = {Completion(text)}
          /\ response = [r \in Reqs |-> IF r = 1 THEN text ELSE Null]
          /\ trace = [r \in Reqs |->
                IF r = 1 THEN <<[op |-> "completion", sent |-> 2,
                                 outcome |-> Completion(text)]>>
                ELSE <<>>]
    /\ tracker = [s \in SessionIds |-> <<>>]
    /\ hpc = [r \in Reqs |-> IF r = 1 THEN "responded" ELSE "none"]
    /\ req = [r \in Reqs |->
          IF r = 1 THEN [json |-> TRUE, verifies |-> TRUE, type |-> AgentSessionEvent,
                         token |-> "found", session |-> 1, issueTitle |-> SomeTitle,
                         commentBody |-> Null]
          ELSE NoRequest]
    /\ status = [r \in Reqs |-> IF r = 1 THEN 200 ELSE 0]
    /\ hlog = [r \in Reqs |->
          IF r = 1 THEN <<"verified", "getOAuthToken", "handleWebhook">> ELSE <<>>]
    /\ pc = [r \in Reqs |-> IF r = 1 THEN "map" ELSE "idle"]
    /\ iterations = [r \in Reqs |-> IF r = 1 THEN 1 ELSE 0]
    /\ taskComplete = [r \in Reqs |-> FALSE]
    /\ messages = [r \in Reqs |->
          IF r = 1 THEN <<Message("system", prompt),
                          Message("user", TaskPrefix \o SomeTitle)>>
          ELSE <<>>]
    /\ content = [r \in Reqs |-> NoContent]
    /\ toolResult = [r \in Reqs |-> Null]
    /\ caught = [r \in Reqs |-> NonError]
    /\ logged = [r \in Reqs |-> <<>>]

NextMapper == \E r \in Reqs : MapResponse(r)

SpecMapper == InitMapper /\ [][NextMapper]_vars

----------------------------------------------------------------------------
(* One iteration on every generated completion text: the mapper and, for an *)
(* Action, the intent record, the tool execution and the outcome record     *)

NextIteration ==
    \E r \in Reqs :
        \/ MapResponse(r)
        \/ ActionIntent(r)
        \/ ExecuteTool(r)
        \/ ActionOutcome(r)

SpecIteration == InitMapper /\ [][NextIteration]_vars

----------------------------------------------------------------------------
(* The tool executor on its own: every tool name with every generated parameter *)

ParamChars == {"1", ",", " ", "x", ".", "-", "\""}
\* the parameters executeAction is given: null, the empty text and short texts
ParamTexts == {Null} \cup UNION {[1..k -> ParamChars] : k \in 0..MaxArgs}

ExecutorInputs ==
    {[type |-> Action, action |-> a, parameter |-> p] : a \in ToolNames, p \in ParamTexts}

\* the text of a call of the tool
CallText(c) ==
    KwAction \o <<" ">> \o c.action \o <<"(">>
        \o (IF Falsy(c.parameter) THEN <<>> ELSE c.parameter) \o <<")">>

\* the first iteration of an invocation, right after the intent record was written
InitExecutor ==
    /\ load = 1
    /\ \E c \in ExecutorInputs :
          /\ api = {Completion(CallText(c))}
          /\ response = [r \in Reqs |-> IF r = 1 THEN CallText(c) ELSE Null]
          /\ content = [r \in Reqs |-> IF r = 1 THEN c ELSE NoContent]
          /\ trace = [r \in Reqs |->
                IF r = 1 THEN <<[op |-> "completion", sent |-> 2,
                                 outcome |-> Completion(CallText(c))],
                                [op |-> "createAgentActivity", site |-> "intent",
                                 content |-> c, ok |-> TRUE]>>
                ELSE <<>>]
          /\ tracker = [s \in SessionIds |-> IF s = 1 THEN <<c>> ELSE <<>>]
    /\ hpc = [r \in Reqs |-> IF r = 1 THEN "responded" ELSE "none"]
    /\ req = [r \in Reqs |->
          IF r = 1 THEN [json |-> TRUE, verifies |-> TRUE, type |-> AgentSessionEvent,
                         token |-> "found", session |-> 1, issueTitle |-> SomeTitle,
                         commentBody |-> Null]
          ELSE NoRequest]
    /\ status = [r \in Reqs |-> IF r = 1 THEN 200 ELSE 0]
    /\ hlog = [r \in Reqs |->
          IF r = 1 THEN <<"verified", "getOAuthToken", "handleWebhook">> ELSE <<>>]
    /\ pc = [r \in Reqs |-> IF r = 1 THEN "execute" ELSE "idle"]
    /\ iterations = [r \in Reqs |-> IF r = 1 THEN 1 ELSE 0]
    /\ taskComplete = [r \in Reqs |-> FALSE]
    /\ messages = [r \in Reqs |->
          IF r = 1 THEN <<Message("system", prompt),
                          Message("user", TaskPrefix \o SomeTitle)>>
          ELSE <<>>]
    /\ toolResult = [r \in Reqs |-> Null]
    /\ caught = [r \in Reqs |-> NonError]
    /\ logged = [r \in Reqs |-> <<>>]

NextExecutor == \E r \in Reqs : ExecuteTool(r)

SpecExecutor == InitExecutor /\ [][NextExecutor]_vars

----------------------------------------------------------------------------
(* Properties of the agent loop *)

TerminalTypes == {Response, ErrorType, Elicitation}

Last(s) == s[Len(s)]

\* the calls of the completion API an invocation has made
CompletionEvents(r) == SelectSeq(trace[r], LAMBDA e : e.op = "completion")
CompletionCalls(r) == Len(CompletionEvents(r))

\* the activities an invocation has persisted, in order
PersistEvents(r) ==
    SelectSeq(trace[r], LAMBDA e : e.op = "createAgentActivity" /\ e.ok)
Persisted(r) == [i \in 1..Len(PersistEvents(r)) |-> PersistEvents(r)[i].content]

\* what the mapper makes of the text of a completion call's outcome
ParsedOk(e) ==
    /\ e.op = "completion"
    /\ e.outcome.kind = "content"
    /\ mapResponseToLinearActivityContent(CompletionText(e.outcome)).ok
Parsed(e) == mapResponseToLinearActivityContent(CompletionText(e.outcome)).content

\* C1: in one invocation of handleUserPrompt the completion API is called at most
\* 10 times and at most 10 iterations are driven, whatever the completions, the
\* tools and the tracker do.
C1_AtMostTenCompletionCalls ==
    \A r \in Reqs : CompletionCalls(r) <= 10 /\ iterations[r] <= 10

\* an invocation that made all 10 calls and returned
C1_Witness ==
    \E r \in Reqs : pc[r] = "done" /\ CompletionCalls(r) = 10 /\ iterations[r] = 10

\* at most one persisted activity is of a terminal kind, and it is the last one
TerminalIsLast(r) ==
    \A j \in 1..Len(Persisted(r)) :
        Persisted(r)[j].type \in TerminalTypes => j = Len(Persisted(r))

ParsedTerminal(e) == ParsedOk(e) /\ Parsed(e).type \in TerminalTypes

\* C2 as stated: when a completion is parsed as a terminal activity, that activity
\* is persisted and nothing follows it: no completion call, no tool call, no other
\* persisted activity; at most one terminal-kind activity is persisted and it is
\* the last record written.
C2_TerminalAlwaysPersisted ==
    \A r \in Reqs :
        /\ TerminalIsLast(r)
        /\ \A i \in 1..Len(trace[r]) :
              ParsedTerminal(trace[r][i]) =>
                  /\ Len(trace[r]) <= i + 1
                  /\ pc[r] \notin {"map", "terminal"} =>
                        /\ Len(trace[r]) = i + 1
                        /\ trace[r][i + 1] =
                              [op |-> "createAgentActivity", site |-> "terminal",
                               content |-> Parsed(trace[r][i]), ok |-> TRUE]

\* C2, amended: when a completion is parsed as a terminal activity, the loop makes
\* one attempt to persist it and stops either way: no completion call and no tool
\* call follows; if the attempt succeeds the activity is the last record written,
\* and if it throws the only thing that follows is the catch clause's attempt to
\* persist an Error activity.  In every invocation at most one terminal-kind
\* activity is persisted and it is the last record written.
C2_TerminalStopsLoop ==
    \A r \in Reqs :
        /\ TerminalIsLast(r)
        /\ \A i \in 1..Len(trace[r]) :
              ParsedTerminal(trace[r][i]) =>
                  /\ Len(trace[r]) <= i + 2
                  /\ pc[r] \notin {"callOpenAI", "thought", "intent", "execute", "outcome"}
                  /\ pc[r] \notin {"map", "terminal"} =>
                        /\ Len(trace[r]) >= i + 1
                        /\ trace[r][i + 1].op = "createAgentActivity"
                        /\ trace[r][i + 1].site = "terminal"
                        /\ trace[r][i + 1].content = Parsed(trace[r][i])
                        /\ trace[r][i + 1].ok =>
                              /\ Len(trace[r]) = i + 1
                              /\ Last(Persisted(r)) = Parsed(trace[r][i])
                        /\ Len(trace[r]) = i + 2 =>
                              /\ ~trace[r][i + 1].ok
                              /\ trace[r][i + 2].op = "createAgentActivity"
                              /\ trace[r][i + 2].site = "catch"

\* an invocation that persisted two Thoughts and then a Response, and returned
C2_Witness ==
    \E r \in Reqs :
        /\ pc[r] = "done"
        /\ Len(Persisted(r)) = 3
        /\ Persisted(r)[3].type = Response
        /\ CompletionCalls(r) = 3

\* a step of an iteration that raised: the completion call, the mapper on its
\* text, the tool execution, or the persisting of the iteration's activity
IterationFailure(e) ==
    \/ e.op = "completion" /\ ~ParsedOk(e)
    \/ e.op = "executeAction" /\ ~e.ok
    \/ /\ e.op = "createAgentActivity"
       /\ ~e.ok
       /\ e.site \in {"thought", "intent", "outcome", "terminal"}

\* the message of the exception the failed step raised into the loop
RaisedMessage(e) ==
    IF e.op = "completion"
    THEN IF e.outcome.kind = "raise"
         THEN OpenAIErrorPrefix \o
                 (IF e.outcome.error.isError THEN e.outcome.error.message
                  ELSE UnknownError)
         ELSE mapResponseToLinearActivityContent(CompletionText(e.outcome)).error.message
    ELSE IF e.op = "executeAction" THEN e.error.message
    ELSE LinearFailure.message

SyntheticError(message) == [type |-> ErrorType, body |-> AgentErrorPrefix \o message]

\* C3 as stated: when a step of an iteration raises, a single Error activity
\* carrying the exception's message is persisted and the loop stops at once: no
\* retry of the failed step and no further completion call.
C3_ErrorAlwaysPersisted ==
    \A r \in Reqs : \A i \in 1..Len(trace[r]) :
        IterationFailure(trace[r][i]) =>
            /\ Len(trace[r]) <= i + 1
            /\ pc[r] \notin {"map", "catch"} =>
                  /\ Len(trace[r]) = i + 1
                  /\ trace[r][i + 1] =
                        [op |-> "createAgentActivity", site |-> "catch",
                         content |-> SyntheticError(RaisedMessage(trace[r][i])),
                         ok |-> TRUE]

\* C3, amended: when a step of an iteration raises, the loop makes exactly one
\* attempt to persist a synthetic Error activity carrying the exception's message
\* and stops at once whether or not the attempt succeeds: the failed step is not
\* retried and no completion call, tool call or other write follows.  If the
\* attempt succeeds the Error is the last record written and the task is complete;
\* if it throws, no Error activity is persisted and handleUserPrompt rejects.
C3_FailureStopsLoop ==
    \A r \in Reqs : \A i \in 1..Len(trace[r]) :
        IterationFailure(trace[r][i]) =>
            /\ Len(trace[r]) <= i + 1
            /\ pc[r] \in {"map", "catch", "while", "afterLoop", "done", "rejected", "failed"}
            /\ pc[r] = "map" => trace[r][i].outcome.kind = "content"
            /\ pc[r] \notin {"map", "catch"} =>
                  /\ Len(trace[r]) = i + 1
                  /\ trace[r][i + 1].op = "createAgentActivity"
                  /\ trace[r][i + 1].site = "catch"
                  /\ trace[r][i + 1].content = SyntheticError(RaisedMessage(trace[r][i]))
                  /\ IF trace[r][i + 1].ok
                     THEN /\ taskComplete[r]
                          /\ pc[r] \in {"while", "afterLoop", "done"}
                          /\ Last(Persisted(r)) = SyntheticError(RaisedMessage(trace[r][i]))
                          /\ TerminalIsLast(r)
                     ELSE /\ pc[r] \in {"rejected", "failed"}
                          /\ \A j \in 1..Len(Persisted(r)) :
                                Persisted(r)[j].type # ErrorType

\* a tool execution raised in the third iteration, the Error was persisted and the
\* invocation returned
C3_Witness ==
    \E r \in Reqs :
        /\ pc[r] = "done"
        /\ CompletionCalls(r) = 3
        /\ \E i \in 1..Len(trace[r]) :
              /\ trace[r][i].op = "executeAction"
              /\ ~trace[r][i].ok
              /\ Last(Persisted(r)) = SyntheticError(trace[r][i].error.message)

ParsedAction(e) == ParsedOk(e) /\ Parsed(e).type = Action

IntentRecord(c) == [type |-> Action, action |-> c.action, parameter |-> c.parameter]
OutcomeRecord(c, result) ==
    [type |-> Action, action |-> c.action, parameter |-> c.parameter, result |-> result]

\* C4: an iteration whose completion is an Action and whose tool execution and
\* persistence succeed writes exactly two activities, in this order: the intent
\* record (tool name, raw parameter, no result) before the tool runs, then, after
\* the tool returned, the outcome record with the same tool name, the same
\* parameter and the tool's result; the next call, if any, belongs to what follows
\* the iteration.
C4_IntentThenOutcome ==
    \A r \in Reqs : \A i \in 1..Len(trace[r]) :
        ParsedAction(trace[r][i]) =>
            LET c == Parsed(trace[r][i])
                t == trace[r]
            IN  /\ Len(t) >= i + 1 =>
                      /\ t[i + 1].op = "createAgentActivity"
                      /\ t[i + 1].site = "intent"
                      /\ t[i + 1].content = IntentRecord(c)
                      /\ "result" \notin DOMAIN t[i + 1].content
                /\ (Len(t) >= i + 2 /\ t[i + 1].ok) =>
                      /\ t[i + 2].op = "executeAction"
                      /\ t[i + 2].action = c.action
                      /\ t[i + 2].parameter = c.parameter
                /\ (Len(t) >= i + 3 /\ t[i + 1].ok /\ t[i + 2].ok) =>
                      /\ t[i + 2].called
                      /\ t[i + 3].op = "createAgentActivity"
                      /\ t[i + 3].site = "outcome"
                      /\ t[i + 3].content = OutcomeRecord(c, t[i + 2].value)
                /\ (Len(t) >= i + 4 /\ t[i + 1].ok /\ t[i + 2].ok /\ t[i + 3].ok) =>
                      \/ t[i + 4].op = "completion"
                      \/ t[i + 4].op = "createAgentActivity" /\ t[i + 4].site = "afterLoop"

\* an invocation whose second iteration was an Action that ran to its outcome record
C4_Witness ==
    \E r \in Reqs :
        /\ Len(trace[r]) >= 8
        /\ ParsedAction(trace[r][5])
        /\ trace[r][6].ok /\ trace[r][7].ok /\ trace[r][8].ok
        /\ Len(Persisted(r)) = 4
        /\ Persisted(r)[3] = IntentRecord(Parsed(trace[r][5]))
        /\ Persisted(r)[4] = OutcomeRecord(Parsed(trace[r][5]), trace[r][7].value)

\* the loop of r has started and has not rejected
Running(r) == pc[r] \notin {"idle", "fetch", "rejected", "failed"}

\* every completion call so far returned text that starts with the keyword
AlwaysReturns(r, keyword) ==
    \A i \in 1..Len(trace[r]) :
        trace[r][i].op = "completion" =>
            /\ trace[r][i].outcome.kind = "content"
            /\ StartsWith(CompletionText(trace[r][i].outcome), keyword)

\* no call of the invocation has raised
NothingRaised(r) ==
    \A i \in 1..Len(trace[r]) : trace[r][i].op # "completion" => trace[r][i].ok

\* the activity with the keyword of the j-th completion stripped and the rest trimmed
Stripped(r, j, type, keyword) ==
    LET text == CompletionText(CompletionEvents(r)[j].outcome)
    IN  [type |-> type, body |-> Trim(SubSeq(text, Len(keyword) + 1, Len(text)))]

\* C5: when the completion API always returns a Thought-prefixed completion and
\* nothing raises, the loop ends after exactly 10 iterations: it has persisted the
\* 10 Thought activities, none of kind Response, Error or Elicitation, and then one
\* Error activity saying that the maximum number of iterations was reached.
C5_ThoughtsRunToLimit ==
    \A r \in Reqs :
        (Running(r) /\ AlwaysReturns(r, KwThinking) /\ NothingRaised(r)) =>
            /\ CompletionCalls(r) <= 10
            /\ \A j \in 1..Len(Persisted(r)) :
                  j <= 10 => /\ j <= CompletionCalls(r)
                             /\ Persisted(r)[j] = Stripped(r, j, Thought, KwThinking)
            /\ Len(Persisted(r)) > 10 => pc[r] = "done"
            /\ pc[r] = "done" =>
                  /\ iterations[r] = 10
                  /\ CompletionCalls(r) = 10
                  /\ Len(Persisted(r)) = 11
                  /\ Persisted(r)[11] = [type |-> ErrorType, body |-> maxIterationsMessage]

\* the invocation has returned after ten Thoughts and the limit-reached Error
C5_Witness ==
    \E r \in Reqs :
        /\ pc[r] = "done"
        /\ AlwaysReturns(r, KwThinking)
        /\ NothingRaised(r)
        /\ Len(Persisted(r)) = 11

\* C6: when the completion API always returns a Response-prefixed completion and
\* nothing raises, the loop ends after exactly one iteration, with one completion
\* call and exactly one persisted activity, of kind Response.
C6_ResponseEndsAtOnce ==
    \A r \in Reqs :
        (Running(r) /\ AlwaysReturns(r, KwResponse) /\ NothingRaised(r)) =>
            /\ CompletionCalls(r) <= 1
            /\ iterations[r] <= 1
            /\ Len(Persisted(r)) <= 1
            /\ pc[r] \in {"afterLoop", "done"} =>
                  /\ iterations[r] = 1
                  /\ CompletionCalls(r) = 1
                  /\ Persisted(r) = <<Stripped(r, 1, Response, KwResponse)>>

\* the invocation has returned after one Response
C6_Witness ==
    \E r \in Reqs :
        /\ pc[r] = "done"
        /\ AlwaysReturns(r, KwResponse)
        /\ NothingRaised(r)
        /\ Len(Persisted(r)) = 1
        /\ Persisted(r)[1].type = Response

----------------------------------------------------------------------------
(* Properties of the webhook endpoint *)

Steps(r) == {hlog[r][i] : i \in 1..Len(hlog[r])}

\* C10: a request whose body is malformed JSON or whose signature or timestamp
\* does not verify is answered at once with 500 and no agent loop is started for
\* it; the token lookup and the launch of the loop only ever follow a successful
\* verification.
C10_RejectedBeforeAgent ==
    \A r \in Reqs :
        /\ (hpc[r] \in {"verified", "responded"} /\ ~(req[r].json /\ req[r].verifies)) =>
              /\ hpc[r] = "responded"
              /\ status[r] = 500
              /\ hlog[r] \in {<<"parseFailed">>, <<"verifyFailed">>}
              /\ pc[r] = "idle"
              /\ trace[r] = <<>>
        /\ (pc[r] # "idle" \/ Steps(r) \cap {"getOAuthToken", "handleWebhook"} # {}) =>
              /\ req[r].json
              /\ req[r].verifies
              /\ hlog[r][1] = "verified"

\* a request with a well-formed body and a bad signature has been answered
C10_Witness ==
    \E r \in Reqs :
        /\ hpc[r] = "responded"
        /\ req[r].json
        /\ ~req[r].verifies
        /\ req[r].type = AgentSessionEvent
        /\ req[r].token = "found"
        /\ status[r] = 500

----------------------------------------------------------------------------
(* Properties of the mapper *)

\* the mapper has run on response[r]
Mapped(r) == pc[r] \in {"thought", "intent", "terminal", "catch"} /\ response[r] # Null
\* and has returned an activity
Returned(r) == pc[r] \in {"thought", "intent", "terminal"}

BodyKeywords ==
    { <<KwThinking, Thought>>, <<KwResponse, Response>>,
      <<KwElicitation, Elicitation>>, <<KwError, ErrorType>> }

\* the activity of the given type whose body is s without its first n characters, trimmed
WithoutPrefix(s, n, type) == [type |-> type, body |-> Trim(SubSeq(s, n + 1, Len(s)))]

\* C7 as stated: for every completion text that starts with one of the five
\* keywords (THINKING:, ACTION:, RESPONSE:, ELICITATION:, ERROR:) the mapper
\* produces an activity of the matching variant whose body is the text with
\* exactly that prefix stripped and the surrounding white space trimmed.
C7_EveryPrefixGivesBody ==
    \A r \in Reqs : \A k \in BodyKeywords \cup {<<KwAction, Action>>} :
        (Mapped(r) /\ StartsWith(response[r], k[1])) =>
            /\ Returned(r)
            /\ content[r] = WithoutPrefix(response[r], Len(k[1]), k[2])

\* C7, amended: for every completion text that starts with THINKING:, RESPONSE:,
\* ELICITATION: or ERROR: the mapper produces an activity of the matching variant
\* whose body is the text with exactly that prefix stripped and the surrounding
\* white space trimmed; for a text that starts with ACTION: the mapper either
\* raises or produces an Action activity, which has an action and a parameter and
\* no body.
C7_BodyPrefixesGiveBody ==
    \A r \in Reqs :
        /\ \A k \in BodyKeywords :
              (Mapped(r) /\ StartsWith(response[r], k[1])) =>
                  /\ Returned(r)
                  /\ content[r] = WithoutPrefix(response[r], Len(k[1]), k[2])
        /\ (Mapped(r) /\ StartsWith(response[r], KwAction) /\ Returned(r)) =>
              /\ content[r].type = Action
              /\ DOMAIN content[r] = {"type", "action", "parameter"}

\* an ELICITATION: text with white space to trim and a second keyword in it was mapped
C7_Witness ==
    \E r \in Reqs :
        /\ Mapped(r)
        /\ response[r] = KwElicitation \o <<" ">> \o KwElicitation \o <<" ">>
        /\ content[r] = [type |-> Elicitation, body |-> KwElicitation]

StartsWithKeyword(s) ==
    \E k \in BodyKeywords \cup {<<KwAction, Action>>} : StartsWith(s, k[1])

\* C8 as stated: a completion text that starts with none of the five keywords maps
\* to a Thought whose body is the whole text, trimmed, nothing else removed.
C8_NoPrefixGivesWholeText ==
    \A r \in Reqs :
        (Mapped(r) /\ ~StartsWithKeyword(response[r])) =>
            /\ Returned(r)
            /\ content[r] = [type |-> Thought, body |-> Trim(response[r])]

\* s is ACTION:, white space, the identifier s[b..c-1], "(", a non-empty argument
\* text without ")" and a closing ")"
CallShape(s, b, c) ==
    /\ StartsWith(s, KwAction)
    /\ Len(KwAction) < b /\ b < c /\ c + 1 < Len(s)
    /\ \A k \in (Len(KwAction) + 1)..(b - 1) : s[k] \in WhiteSpace
    /\ \A k \in b..(c - 1) : s[k] \in WordChars
    /\ s[c] = "("
    /\ \A k \in (c + 1)..(Len(s) - 1) : s[k] # ")"
    /\ s[Len(s)] = ")"

\* C9: for a completion of the form ACTION: <identifier>(<args>), when the
\* identifier is one of the three tool names the mapper returns an Action activity
\* with that identifier as action, the text between the parentheses verbatim as
\* parameter and no result; otherwise it raises the invalid-tool-name error and
\* returns no activity.  "ACTION: getWeather(40.0, -74.0)" gives action getWeather
\* and parameter "40.0, -74.0".
C9_CallGivesActionOrInvalidTool ==
    \A r \in Reqs :
        Mapped(r) =>
            /\ \A b, c \in 1..Len(response[r]) :
                  CallShape(response[r], b, c) =>
                      LET id == SubSeq(response[r], b, c - 1)
                          args == SubSeq(response[r], c + 1, Len(response[r]) - 1)
                      IN  IF id \in {GetCoordinates, GetWeather, GetTime}
                          THEN /\ Returned(r)
                               /\ content[r] =
                                     [type |-> Action, action |-> id, parameter |-> args]
                          ELSE /\ pc[r] = "catch"
                               /\ content[r] = NoContent
                               /\ caught[r] = [isError |-> TRUE,
                                               message |-> InvalidToolNamePrefix \o id]
            /\ response[r] = ExampleWeather =>
                  /\ Returned(r)
                  /\ content[r].action = GetWeather
                  /\ content[r].parameter = ExampleParameter

\* the example call was mapped
C9_Witness ==
    \E r \in Reqs :
        /\ Mapped(r)
        /\ response[r] = ExampleWeather
        /\ content[r].type = Action

----------------------------------------------------------------------------
(* Properties of the detached invocation *)

\* a verified AgentSessionEvent with a token has been answered
Accepted(r) ==
    /\ hpc[r] = "responded"
    /\ req[r].json /\ req[r].verifies
    /\ req[r].type = AgentSessionEvent
    /\ req[r].token = "found"

\* handleUserPrompt has returned or rejected
Finished(r) == pc[r] \in {"done", "rejected", "failed"}

\* the step of the handler that answers an accepted request
Acknowledges(r) == hpc[r] = "verified" /\ hpc'[r] = "responded" /\ Accepted(r)'

\* C11: for a verified AgentSessionEvent with an OAuth token the handler launches
\* the agent loop detached and answers 200 without waiting for it: at the answer
\* the loop has not made a step.  Whatever the loop does afterwards, the answer
\* stays as it was; a rejection of the loop is logged once and nothing else, and
\* the loop is never started again.
C11_AcknowledgedBeforeLoopRuns ==
    /\ [](\A r \in Reqs :
            Accepted(r) =>
                /\ status[r] = 200
                /\ hlog[r] = <<"verified", "getOAuthToken", "handleWebhook">>
                /\ pc[r] # "idle"
                /\ logged[r] = IF pc[r] = "failed"
                               THEN <<[at |-> "webhook", error |-> caught[r]]>>
                               ELSE <<>>)
    /\ [][\A r \in Reqs :
            /\ Acknowledges(r) =>
                  /\ status'[r] = 200
                  /\ pc'[r] = "fetch"
                  /\ trace'[r] = <<>>
            /\ hpc[r] = "responded" =>
                  /\ status'[r] = status[r]
                  /\ hpc'[r] = "responded"
                  /\ hlog'[r] = hlog[r]
            /\ pc[r] # "idle" => pc'[r] # "idle"
            /\ pc[r] \notin {"idle", "fetch"} => pc'[r] # "fetch"
            /\ Finished(r) =>
                  /\ pc'[r] \in {pc[r], "failed"}
                  /\ trace'[r] = trace[r]
                  /\ tracker' = tracker \/ pc'[r] = pc[r]]_vars

\* an accepted request was answered 200, its loop worked, rejected and was logged
C11_Witness ==
    \E r \in Reqs :
        /\ Accepted(r)
        /\ status[r] = 200
        /\ pc[r] = "failed"
        /\ Len(trace[r]) >= 2
        /\ Len(logged[r]) = 1

----------------------------------------------------------------------------
(* Properties of the conversation history *)

IsPrefix(s, t) == Len(s) <= Len(t) /\ SubSeq(t, 1, Len(s)) = s

\* the messages a step appends to the history of r
Appended(r) == SubSeq(messages'[r], Len(messages[r]) + 1, Len(messages'[r]))

\* the number of messages the j-th iteration has added when the next call is made
Growth(r, j) ==
    IF Parsed(CompletionEvents(r)[j]).type = Thought THEN 1 ELSE 2

\* every step keeps the history as a prefix and appends to it only in a Thought
\* iteration, after the Thought was persisted, the assistant message with the raw
\* text, or in an Action iteration, after the tool returned, the assistant message
\* and the user message with the tool result
HistoryStep(r) ==
    /\ pc[r] \notin {"idle", "fetch"} => IsPrefix(messages[r], messages'[r])
    /\ (pc[r] \notin {"idle", "fetch"} /\ messages'[r] # messages[r]) =>
          \/ /\ pc[r] = "thought"
             /\ content[r].type = Thought
             /\ Last(trace'[r]).op = "createAgentActivity" /\ Last(trace'[r]).ok
             /\ Appended(r) = <<Message("assistant", response[r])>>
          \/ /\ pc[r] = "execute"
             /\ content[r].type = Action
             /\ Last(trace'[r]).op = "executeAction" /\ Last(trace'[r]).ok
             /\ Appended(r) = <<Message("assistant", response[r]),
                                Message("user", ToolResultPrefix \o Last(trace'[r]).value)>>

\* each completion call after the first is sent the history of the call before it
\* and what the iteration between them added
HistoryAtCalls(r) ==
    /\ \A j \in 1..(CompletionCalls(r) - 1) :
          /\ ParsedOk(CompletionEvents(r)[j])
          /\ Parsed(CompletionEvents(r)[j]).type \in {Thought, Action}
          /\ CompletionEvents(r)[j + 1].sent = CompletionEvents(r)[j].sent + Growth(r, j)
    /\ (pc[r] \in {"terminal", "while", "afterLoop", "done"}
            /\ CompletionCalls(r) > 0 /\ ParsedTerminal(Last(CompletionEvents(r)))) =>
          Len(messages[r]) = Last(CompletionEvents(r)).sent

\* the iteration of r failed after the tool had returned
OutcomeWriteFailed(r) ==
    /\ Last(trace[r]).op = "createAgentActivity"
    /\ Last(trace[r]).site = "outcome"
    /\ ~Last(trace[r]).ok

\* C12 as stated: the history of an invocation is append-only; a Thought iteration
\* appends one assistant message with the raw text, an Action iteration the
\* assistant message and then the user message "Tool result: <result>", before the
\* next completion call; terminal and failed iterations append nothing.
C12_FailedIterationsAppendNothing ==
    /\ [](\A r \in Reqs :
            /\ HistoryAtCalls(r)
            /\ pc[r] = "catch" => Len(messages[r]) = Last(CompletionEvents(r)).sent)
    /\ [][\A r \in Reqs : HistoryStep(r)]_vars

\* C12, amended: the history of an invocation is append-only; a Thought iteration
\* appends one assistant message with the raw text once the Thought is persisted,
\* an Action iteration appends the assistant message and then the user message
\* "Tool result: <result>" once the tool has returned, before the next completion
\* call; terminal iterations append nothing, and a failed iteration appends
\* nothing unless it is an Action iteration that fails in writing the outcome
\* record, which has appended its two messages already.
C12_HistoryAppendOnly ==
    /\ [](\A r \in Reqs :
            /\ HistoryAtCalls(r)
            /\ pc[r] = "catch" =>
                  Len(messages[r]) = Last(CompletionEvents(r)).sent
                                        + (IF OutcomeWriteFailed(r) THEN 2 ELSE 0))
    /\ [][\A r \in Reqs : HistoryStep(r)]_vars

\* after an Action iteration that appended two messages and a second call that was
\* sent them, a second Action iteration failed in writing its outcome record
C12_Witness ==
    \E r \in Reqs :
        /\ pc[r] = "catch"
        /\ OutcomeWriteFailed(r)
        /\ CompletionCalls(r) = 2
        /\ CompletionEvents(r)[2].sent = CompletionEvents(r)[1].sent + 2
        /\ Len(messages[r]) = CompletionEvents(r)[2].sent + 2
        /\ Last(messages[r]).role = "user"
        /\ StartsWith(Last(messages[r]).content, ToolResultPrefix)

----------------------------------------------------------------------------
(* Properties of the tool executor *)

\* executeAction has been called, and the event of the call
Executed(r) == Len(trace[r]) > 0 /\ Last(trace[r]).op = "executeAction"

\* C13: executeAction given an absent parameter (null or the empty text) raises
\* the missing-parameter error, for each of the three tool names, and no tool is
\* invoked.
C13_AbsentParameterRaises ==
    \A r \in Reqs :
        (Executed(r) /\ Falsy(Last(trace[r]).parameter)) =>
            /\ Last(trace[r]).action \in {GetCoordinates, GetWeather, GetTime}
            /\ ~Last(trace[r]).ok
            /\ ~Last(trace[r]).called
            /\ Last(trace[r]).error = [isError |-> TRUE, message |-> ParameterRequired]
            /\ pc[r] = "catch"
            /\ caught[r] = [isError |-> TRUE, message |-> ParameterRequired]
            /\ toolResult[r] = Null

\* getCoordinates, the tool that takes any text, was given the empty text
C13_Witness ==
    \E r \in Reqs :
        /\ Executed(r)
        /\ Last(trace[r]).action = GetCoordinates
        /\ Last(trace[r]).parameter = <<>>
        /\ ~Last(trace[r]).called

----------------------------------------------------------------------------
(* Properties of interleaved invocations *)

\* the step is one of the request or invocation r
StepOf(r) == pc'[r] # pc[r] \/ hpc'[r] # hpc[r]

\* the loop of r is between its start and its end
InLoop(r) ==
    pc[r] \in {"while", "callOpenAI", "map", "thought", "intent", "execute",
               "outcome", "terminal", "catch"}

\* C14: interleaved invocations, for the same session or not, share no loop
\* state: the iteration count of each is the count of its own completion calls,
\* at most 10, its flag is set by none but its own terminal or failed iteration,
\* and a step of one invocation leaves the iteration count, the flag and the
\* message history of every other one as they were.
C14_NoSharedLoopState ==
    /\ [](\A r \in Reqs :
            /\ CompletionCalls(r) <= 10
            /\ iterations[r] = CompletionCalls(r) + (IF pc[r] = "callOpenAI" THEN 1 ELSE 0)
            /\ taskComplete[r] =>
                  /\ Len(PersistEvents(r)) > 0
                  /\ Last(PersistEvents(r)).site \in {"terminal", "catch"})
    /\ [][\A r, q \in Reqs :
            (r # q /\ StepOf(r)) =>
                /\ iterations'[q] = iterations[q]
                /\ taskComplete'[q] = taskComplete[q]
                /\ messages'[q] = messages[q]
                /\ pc'[q] = pc[q]
                /\ trace'[q] = trace[q]]_vars

\* two invocations for the same session are both in their loops, one in its
\* seventh iteration and the other in its second
C14_Witness ==
    \E r, q \in Reqs :
        /\ r # q
        /\ req[r].session = req[q].session
        /\ InLoop(r) /\ InLoop(q)
        /\ iterations[r] = 7 /\ CompletionCalls(r) = 7
        /\ iterations[q] = 2 /\ CompletionCalls(q) = 2
        /\ Len(messages[r]) = Len(messages[q]) + 5

----------------------------------------------------------------------------
(* Properties of the iteration limit *)

LimitError == [type |-> ErrorType, body |-> maxIterationsMessage]

\* the attempts to write the limit-reached Error, and whether it was persisted
LimitAttempts(r) ==
    SelectSeq(trace[r], LAMBDA e : e.op = "createAgentActivity" /\ e.site = "afterLoop")
LimitWritten(r) == \E i \in 1..Len(LimitAttempts(r)) : LimitAttempts(r)[i].ok

\* the Error activities persisted by the catch clause
ExceptionErrors(r) == SelectSeq(PersistEvents(r), LAMBDA e : e.site = "catch")

\* every iteration so far produced a Thought or an Action and nothing in it raised
IterationsClean(r) ==
    \A i \in 1..Len(trace[r]) :
        LET e == trace[r][i]
        IN  /\ e.op = "completion" =>
                  ParsedOk(e) /\ Parsed(e).type \in {Thought, Action}
            /\ e.op = "executeAction" => e.ok
            /\ (e.op = "createAgentActivity" /\ e.site # "afterLoop") => e.ok

\* all 10 iterations ran, each non-terminal and without raising
TenClean(r) == CompletionCalls(r) = 10 /\ iterations[r] = 10 /\ IterationsClean(r)

\* C15 as stated: the limit-reached Error is persisted if and only if all 10
\* iterations ran and each produced a non-terminal activity without raising; an
\* invocation never persists both an exception Error and the limit-reached Error.
C15_LimitErrorIffTenClean ==
    \A r \in Reqs :
        /\ LimitWritten(r) => TenClean(r)
        /\ (Finished(r) /\ TenClean(r)) => LimitWritten(r)
        /\ ~(LimitWritten(r) /\ Len(ExceptionErrors(r)) > 0)

\* C15, amended: the loop attempts to write the limit-reached Error, once, if and
\* only if all 10 iterations ran and each produced a non-terminal activity without
\* raising; the Error is persisted if and only if that attempt succeeds, and when
\* it throws handleUserPrompt rejects with nothing written.  When the 10th
\* iteration produces a terminal activity or raises there is no attempt, so an
\* invocation never persists both an exception Error and the limit-reached Error.
C15_LimitErrorOnlyAfterTenClean ==
    \A r \in Reqs :
        /\ Len(LimitAttempts(r)) <= 1
        /\ Len(LimitAttempts(r)) = 1 =>
              /\ TenClean(r)
              /\ Last(trace[r]) = LimitAttempts(r)[1]
              /\ LimitAttempts(r)[1].content = LimitError
              /\ pc[r] \in (IF LimitWritten(r) THEN {"done"} ELSE {"rejected", "failed"})
              /\ LimitWritten(r) => Last(Persisted(r)) = LimitError
        /\ (Finished(r) /\ TenClean(r)) => Len(LimitAttempts(r)) = 1
        /\ ~(LimitWritten(r) /\ Len(ExceptionErrors(r)) > 0)

\* ten Action iterations ran to their outcome records and the limit-reached Error
\* was persisted
C15_Witness ==
    \E r \in Reqs :
        /\ pc[r] = "done"
        /\ LimitWritten(r)
        /\ Len(Persisted(r)) = 21
        /\ Persisted(r)[19].type = Action
        /\ Persisted(r)[21] = LimitError

----------------------------------------------------------------------------
(* Properties of a failed tool execution *)

\* the i-th call of r is a tool execution that raised
ToolRaised(r, i) == trace[r][i].op = "executeAction" /\ ~trace[r][i].ok

\* before a tool execution come the completion call of its iteration and the
\* persisted intent record, and while the iteration lasts the history is the one
\* that call was sent
IntentAlreadyPersisted(r, i) ==
    LET t == trace[r]
    IN  /\ i >= 3
        /\ ParsedAction(t[i - 2])
        /\ t[i - 1] = [op |-> "createAgentActivity", site |-> "intent",
                       content |-> IntentRecord(Parsed(t[i - 2])), ok |-> TRUE]
        /\ t[i].action = Parsed(t[i - 2]).action
        /\ t[i].parameter = Parsed(t[i - 2]).parameter
        /\ Len(messages[r]) = t[i - 2].sent
        /\ Last(messages[r]).content # CompletionText(t[i - 2].outcome)

\* C16 as stated: when the tool execution of an Action iteration raises, the
\* intent record has already been persisted; the records written for the
\* iteration are the intent record followed by one Error activity, no outcome
\* record is written, and the history gets neither the model's text nor a tool
\* result.
C16_IntentThenErrorWritten ==
    \A r \in Reqs : \A i \in 1..Len(trace[r]) :
        ToolRaised(r, i) =>
            /\ IntentAlreadyPersisted(r, i)
            /\ Len(trace[r]) <= i + 1
            /\ pc[r] # "catch" =>
                  /\ Len(trace[r]) = i + 1
                  /\ trace[r][i + 1] =
                        [op |-> "createAgentActivity", site |-> "catch",
                         content |-> SyntheticError(trace[r][i].error.message),
                         ok |-> TRUE]

\* C16, amended: when the tool execution of an Action iteration raises, the
\* intent record has already been persisted; what follows is one attempt to write
\* an Error activity with the exception's message and nothing else: no outcome
\* record, no further call.  The records written for the iteration are the intent
\* record and, when that attempt succeeds, the Error activity after it; the
\* history gets neither the model's text nor a tool result.
C16_IntentThenErrorAttempt ==
    \A r \in Reqs : \A i \in 1..Len(trace[r]) :
        ToolRaised(r, i) =>
            /\ IntentAlreadyPersisted(r, i)
            /\ Len(trace[r]) <= i + 1
            /\ pc[r] # "catch" =>
                  /\ Len(trace[r]) = i + 1
                  /\ trace[r][i + 1].op = "createAgentActivity"
                  /\ trace[r][i + 1].site = "catch"
                  /\ trace[r][i + 1].content = SyntheticError(trace[r][i].error.message)
                  /\ IF trace[r][i + 1].ok
                     THEN /\ Len(Persisted(r)) >= 2
                          /\ Persisted(r)[Len(Persisted(r)) - 1] = trace[r][i - 1].content
                          /\ Last(Persisted(r)) = trace[r][i + 1].content
                     ELSE Last(Persisted(r)) = trace[r][i - 1].content
            /\ \A k \in 1..Len(trace[r]) :
                  (k > i - 2 /\ trace[r][k].op = "createAgentActivity") =>
                      trace[r][k].site \in {"intent", "catch"}

\* a tool was called and failed; the intent record and the Error were persisted
C16_Witness ==
    \E r \in Reqs :
        /\ pc[r] = "done"
        /\ Len(trace[r]) >= 4
        /\ ToolRaised(r, Len(trace[r]) - 1)
        /\ trace[r][Len(trace[r]) - 1].called
        /\ Last(trace[r]).ok
        /\ Last(Persisted(r)) = SyntheticError(ToolFailure.message)
        /\ Persisted(r)[Len(Persisted(r)) - 1].type = Action

----------------------------------------------------------------------------
(* Properties of an ACTION: completion without a call *)

\* a completion whose text starts with ACTION: and holds no match of the call pattern
FallsThrough(e) ==
    /\ e.op = "completion"
    /\ e.outcome.kind = "content"
    /\ StartsWith(CompletionText(e.outcome), KwAction)
    /\ actionMatch(CompletionText(e.outcome)) = <<>>

\* the attempt of the catch clause to write its Error activity
CatchAttempt(e) ==
    /\ e.op = "createAgentActivity"
    /\ e.site = "catch"
    /\ e.content.type = ErrorType
    /\ StartsWith(e.content.body, AgentErrorPrefix)

\* C17 as stated: a completion that starts with ACTION: and does not match the
\* call pattern makes the mapper fall through and raise; the loop gets no
\* activity, persists nothing for the text, makes no further iteration and ends
\* through the failure path with one Error activity written.
C17_FallThroughWritesError ==
    \A r \in Reqs : \A i \in 1..Len(trace[r]) :
        FallsThrough(trace[r][i]) =>
            /\ ~ParsedOk(trace[r][i])
            /\ Len(trace[r]) <= i + 1
            /\ pc[r] \in {"map", "catch", "while", "afterLoop", "done", "rejected", "failed"}
            /\ pc[r] \in {"map", "catch"} => content[r] = NoContent /\ Len(trace[r]) = i
            /\ pc[r] \notin {"map", "catch"} =>
                  /\ Len(trace[r]) = i + 1
                  /\ CatchAttempt(trace[r][i + 1])
                  /\ trace[r][i + 1].ok
                  /\ Last(Persisted(r)) = trace[r][i + 1].content
                  /\ taskComplete[r]

\* C17, amended: a completion that starts with ACTION: and holds no match of the
\* call pattern makes the mapper fall through and raise; the loop gets no
\* activity, persists nothing for the text, makes no further iteration and ends
\* through the failure path: one attempt to write an Error activity, after which
\* the loop stops, with the Error persisted when the attempt succeeds and
\* handleUserPrompt rejecting when it throws.
C17_FallThroughEndsInFailurePath ==
    \A r \in Reqs : \A i \in 1..Len(trace[r]) :
        FallsThrough(trace[r][i]) =>
            /\ ~ParsedOk(trace[r][i])
            /\ Len(trace[r]) <= i + 1
            /\ pc[r] \in {"map", "catch", "while", "afterLoop", "done", "rejected", "failed"}
            /\ pc[r] \in {"map", "catch"} => content[r] = NoContent /\ Len(trace[r]) = i
            /\ pc[r] \notin {"map", "catch"} =>
                  /\ Len(trace[r]) = i + 1
                  /\ CatchAttempt(trace[r][i + 1])
                  /\ IF trace[r][i + 1].ok
                     THEN /\ Last(Persisted(r)) = trace[r][i + 1].content
                          /\ taskComplete[r]
                          /\ pc[r] \in {"while", "afterLoop", "done"}
                     ELSE /\ pc[r] \in {"rejected", "failed"}
                          /\ \A j \in 1..Len(Persisted(r)) :
                                Persisted(r)[j].type # ErrorType

\* after a Thought, "ACTION: getTime" fell through; the Error was persisted and
\* the invocation returned
C17_Witness ==
    \E r \in Reqs :
        /\ pc[r] = "done"
        /\ CompletionCalls(r) = 2
        /\ FallsThrough(trace[r][Len(trace[r]) - 1])
        /\ CatchAttempt(Last(trace[r]))
        /\ Len(Persisted(r)) = 2
        /\ Persisted(r)[1].type = Thought
        /\ Persisted(r)[2].type = ErrorType

----------------------------------------------------------------------------
(* Properties of a failed write of the synthetic Error *)

\* the i-th call of r is the catch clause's write, and it threw
ErrorWriteFailed(r, i) ==
    /\ trace[r][i].op = "createAgentActivity"
    /\ trace[r][i].site = "catch"
    /\ ~trace[r][i].ok

\* C18: when the write of the synthetic Error activity throws, the loop does not
\* catch it: handleUserPrompt rejects with that error, no completion call and no
\* write follows (no retry of the Error, no limit-reached Error), and the
\* rejection reaches the catch of the detached promise alone, which logs it; the
\* answer of the handler stays 200.
C18_FailedErrorWriteRejects ==
    \A r \in Reqs : \A i \in 1..Len(trace[r]) :
        ErrorWriteFailed(r, i) =>
            /\ Len(trace[r]) = i
            /\ pc[r] \in {"rejected", "failed"}
            /\ caught[r] = LinearFailure
            /\ ~taskComplete[r]
            /\ Len(LimitAttempts(r)) = 0
            /\ Len(ExceptionErrors(r)) = 0
            /\ logged[r] = IF pc[r] = "failed"
                           THEN <<[at |-> "webhook", error |-> LinearFailure]>>
                           ELSE <<>>
            /\ status[r] = 200
            /\ hlog[r] = <<"verified", "getOAuthToken", "handleWebhook">>

\* the completion API threw in the second iteration, the write of the Error threw
\* too, and the rejection was logged
C18_Witness ==
    \E r \in Reqs :
        /\ pc[r] = "failed"
        /\ Len(trace[r]) = 4
        /\ trace[r][3].op = "completion"
        /\ trace[r][3].outcome.kind = "raise"
        /\ ErrorWriteFailed(r, 4)
        /\ Len(logged[r]) = 1

----------------------------------------------------------------------------
(* Properties of a completion without content *)

\* every completion call so far returned no content: null or the empty text
AlwaysNoContent(r) ==
    \A i \in 1..Len(trace[r]) :
        trace[r][i].op = "completion" =>
            /\ trace[r][i].outcome.kind = "content"
            /\ trace[r][i].outcome.text \in {Null, <<>>}

NoResponseThought == [type |-> Thought, body |-> NoResponse]

\* every iteration so far was given the text "No response", persisted it as a
\* Thought and appended it to the history, and the invocation returns only after
\* 10 such iterations and the limit-reached Error
NoContentRunsToLimit(r) ==
    /\ pc[r] # "catch"
    /\ CompletionCalls(r) <= 10
    /\ response[r] \in {Null, NoResponse}
    /\ pc[r] \in {"map", "thought"} => response[r] = NoResponse
    /\ pc[r] = "thought" => content[r] = NoResponseThought
    /\ \A j \in 1..Len(Persisted(r)) :
          j <= 10 => j <= CompletionCalls(r) /\ Persisted(r)[j] = NoResponseThought
    /\ \A j \in 1..CompletionCalls(r) :
          /\ CompletionEvents(r)[j].sent = CompletionEvents(r)[1].sent + j - 1
          /\ \A k \in (CompletionEvents(r)[1].sent + 1)..Len(messages[r]) :
                messages[r][k] = Message("assistant", NoResponse)
    /\ (pc[r] \in {"while", "afterLoop", "done"} /\ CompletionCalls(r) > 0) =>
          Len(messages[r]) = CompletionEvents(r)[1].sent + CompletionCalls(r)
    /\ pc[r] = "afterLoop" => iterations[r] = 10 /\ ~taskComplete[r]
    /\ pc[r] = "done" =>
          /\ iterations[r] = 10
          /\ CompletionCalls(r) = 10
          /\ Len(Persisted(r)) = 11
          /\ Persisted(r)[11] = LimitError

----------------------------------------------------------------------------
(* Properties of the parameter of an Action *)

\* the records of kind Action among the writes r attempted
ActionWrites(r) ==
    SelectSeq(trace[r], LAMBDA e : e.op = "createAgentActivity" /\ e.content.type = Action)

\* C20: every Action activity the mapper returns has a parameter of at least one
\* character, so the loop never calls executeAction with an absent parameter:
\* the missing-parameter error is not raised in the loop, and the intent record
\* and the outcome record carry the same parameter, which is not null.
C20_ParameterNeverAbsent ==
    \A r \in Reqs :
        /\ content[r].type = Action =>
              /\ content[r].parameter # Null
              /\ Len(content[r].parameter) >= 1
        /\ caught[r] # [isError |-> TRUE, message |-> ParameterRequired]
        /\ \A i \in 1..Len(trace[r]) :
              LET e == trace[r][i]
              IN  /\ e.op = "executeAction" =>
                        /\ ~Falsy(e.parameter)
                        /\ e.error # [isError |-> TRUE, message |-> ParameterRequired]
                        /\ trace[r][i - 1].site = "intent"
                        /\ trace[r][i - 1].content.parameter = e.parameter
                  /\ (e.op = "createAgentActivity" /\ e.site = "outcome") =>
                        /\ trace[r][i - 2].site = "intent"
                        /\ e.content.parameter = trace[r][i - 2].content.parameter
                        /\ e.content.action = trace[r][i - 2].content.action
                        /\ e.content.parameter # Null
        /\ \A i \in 1..Len(ActionWrites(r)) :
              ~Falsy(ActionWrites(r)[i].content.parameter)

\* getCoordinates was called with a parameter of one blank, and the intent and
\* the outcome records were persisted with it
C20_Witness ==
    \E r \in Reqs :
        /\ Len(ActionWrites(r)) = 2
        /\ ActionWrites(r)[1].ok /\ ActionWrites(r)[2].ok
        /\ ActionWrites(r)[1].content.action = GetCoordinates
        /\ ActionWrites(r)[1].content.parameter = <<" ">>
        /\ ActionWrites(r)[2].content.parameter = <<" ">>
        /\ ActionWrites(r)[2].site = "outcome"

====
